---- MODULE Spec2Model ----
(***************************************************************************)
(* Movie Portal: the /api/movies route handlers (route.ts) over the movie  *)
(* collection, and the HomePage component (page.tsx) that mirrors the      *)
(* collection in its local state.                                          *)
(*                                                                         *)
(* A JavaScript string is a sequence of one-character strings, so that     *)
(* split, trim, join and parseInt are computed character by character.     *)
(* A JSON value is a record [t, s, n, a]: its type tag, and its string,    *)
(* number or array payload (the unused payloads hold a fixed default).     *)
(* An ObjectId string is stood for by the ordinal of the insert that       *)
(* produced it (tag "id", payload n >= 1); n = 0 is the empty string "".   *)
(***************************************************************************)
EXTENDS Integers, Sequences, FiniteSets, TLC

VARIABLES
    store,      \* the movie collection, in insertion order
    nextId,     \* ordinal of the next ObjectId the database hands out
    deleted,    \* history: ids for which a DELETE has answered 200
    last,       \* the last request handled and the response it was given
    before,     \* the collection as it was when that request arrived
    movies,     \* HomePage: useState<Movie[]>
    newMovie,   \* HomePage: the form fields {title, actors, year}
    editingMovie, \* HomePage: the movie being edited, or NoMovie for null
    inflight,   \* HomePage: the fetches awaiting their response, per slot
    notice,     \* HomePage: the text of the alert() raised by the last step
    event,      \* HomePage: what the last step of the page was
    storeFailed \* history: some store call has thrown

vars == <<store, nextId, deleted, last, before, movies, newMovie,
          editingMovie, inflight, notice, event, storeFailed>>

serverVars == <<store, nextId, deleted, last, before>>
clientVars == <<movies, newMovie, editingMovie, inflight, notice, event, storeFailed>>

---------------------------------------------------------------------------
(* Bounds *)

\* ObjectIds the database hands out in one run (creates are disabled after).
MaxCreates == 2
\* Fetches the page may have in flight at once.
MaxInflight == 2

---------------------------------------------------------------------------
(* JavaScript strings *)

IsSpace(c) == c = " "

RECURSIVE TrimStart(_)
TrimStart(s) ==
    IF s = <<>> THEN <<>>
    ELSE IF IsSpace(Head(s)) THEN TrimStart(Tail(s)) ELSE s

RECURSIVE TrimEnd(_)
TrimEnd(s) ==
    IF s = <<>> THEN <<>>
    ELSE IF IsSpace(s[Len(s)]) THEN TrimEnd(SubSeq(s, 1, Len(s) - 1)) ELSE s

\* String.prototype.trim
Trim(s) == TrimEnd(TrimStart(s))

\* String.prototype.split(','): the segments between commas, empty ones kept;
\* the empty string splits to one empty segment.
RECURSIVE SplitFrom(_, _)
SplitFrom(s, cur) ==
    IF s = <<>> THEN <<cur>>
    ELSE IF Head(s) = "," THEN <<cur>> \o SplitFrom(Tail(s), <<>>)
    ELSE SplitFrom(Tail(s), Append(cur, Head(s)))

Split(s) == SplitFrom(s, <<>>)

\* Array.prototype.map((actor) => actor.trim())
MapTrim(a) == [i \in 1..Len(a) |-> Trim(a[i])]

\* Array.prototype.join(', ')
RECURSIVE Join(_)
Join(a) ==
    IF a = <<>> THEN <<>>
    ELSE IF Len(a) = 1 THEN a[1]
    ELSE a[1] \o <<",", " ">> \o Join(Tail(a))

DigitChars == <<"0", "1", "2", "3", "4", "5", "6", "7", "8", "9">>

IsDigit(c) == \E i \in 1..Len(DigitChars) : DigitChars[i] = c

DigitVal(c) == (CHOOSE i \in 1..Len(DigitChars) : DigitChars[i] = c) - 1

\* The longest prefix of s made of digits.
RECURSIVE DigitPrefix(_)
DigitPrefix(s) ==
    IF s = <<>> \/ ~IsDigit(Head(s)) THEN <<>>
    ELSE <<Head(s)>> \o DigitPrefix(Tail(s))

RECURSIVE DigitsValue(_, _)
DigitsValue(d, acc) ==
    IF d = <<>> THEN acc ELSE DigitsValue(Tail(d), 10 * acc + DigitVal(Head(d)))

\* Number.prototype.toString for a non-negative integer.
RECURSIVE NatToString(_)
NatToString(n) ==
    IF n < 10 THEN <<DigitChars[n + 1]>>
    ELSE NatToString(n \div 10) \o <<DigitChars[(n % 10) + 1]>>

---------------------------------------------------------------------------
(* JSON values *)

JUndefined == [t |-> "undefined", s |-> <<>>, n |-> 0, a |-> <<>>]
JNull      == [t |-> "null",      s |-> <<>>, n |-> 0, a |-> <<>>]
JNaN       == [t |-> "NaN",       s |-> <<>>, n |-> 0, a |-> <<>>]
JString(x) == [t |-> "string",    s |-> x,    n |-> 0, a |-> <<>>]
JNumber(x) == [t |-> "number",    s |-> <<>>, n |-> x, a |-> <<>>]
JArray(x)  == [t |-> "array",     s |-> <<>>, n |-> 0, a |-> x]
JId(k)     == [t |-> "id",        s |-> <<>>, n |-> k, a |-> <<>>]

\* ToBoolean, as the ! of the handlers' checks applies it.
Truthy(v) ==
    CASE v.t = "undefined" -> FALSE
      [] v.t = "null"      -> FALSE
      [] v.t = "NaN"       -> FALSE
      [] v.t = "string"    -> v.s # <<>>
      [] v.t = "number"    -> v.n # 0
      [] v.t = "id"        -> v.n # 0
      [] OTHER             -> TRUE

\* parseInt(x, 10): the argument as a string, leading white space skipped,
\* then the longest run of digits; NaN when there is none.
ParseInt(v) ==
    LET text == IF v.t = "string" THEN v.s
                ELSE IF v.t = "number" THEN NatToString(v.n)
                ELSE <<"x">>
        d == DigitPrefix(TrimStart(text))
    IN  IF d = <<>> THEN JNaN ELSE JNumber(DigitsValue(d, 0))

\* JSON.stringify followed by JSON.parse: NaN and undefined do not survive.
ThroughJson(v) == IF v.t = "NaN" THEN JNull ELSE v

---------------------------------------------------------------------------
(* The movie collection behind prisma.movie *)

\* A stored movie: title a string, actors an array of strings, year an Int.
Movie(id, title, actors, year) ==
    [id |-> id, title |-> title, actors |-> actors, year |-> year]

\* null / no movie in a response or in editingMovie.
NoMovie == Movie(0, <<>>, <<>>, 0)

Ids(ms) == {ms[i].id : i \in 1..Len(ms)}

HasId(ms, id) == \E i \in 1..Len(ms) : ms[i].id = id

\* The Movie model's field types: a write whose data does not have them is
\* rejected by the client library before it reaches the database.
SchemaAccepts(data) ==
    /\ data.title.t = "string"
    /\ data.actors.t = "array"
    /\ data.year.t = "number"

Db(s, n) == [store |-> s, nextId |-> n]

Threw(db) == [threw |-> TRUE, movie |-> NoMovie, db |-> db]

Returned(m, db) == [threw |-> FALSE, movie |-> m, db |-> db]

\* A create that numbers the new record by the size of the collection, so
\* that an id freed by a delete is handed out again.
PrismaCreateReusesId(db, data, down) ==
    IF down \/ ~SchemaAccepts(data) THEN Threw(db)
    ELSE LET m == Movie(Len(db.store) + 1, data.title.s, data.actors.a, data.year.n)
         IN  Returned(m, Db(Append(db.store, m), db.nextId + 1))

\* prisma.movie.create({data}): the database assigns a fresh ObjectId.
PrismaCreate(db, data, down) ==
    IF down \/ ~SchemaAccepts(data) THEN Threw(db)
    ELSE LET m == Movie(db.nextId, data.title.s, data.actors.a, data.year.n)
         IN  Returned(m, Db(Append(db.store, m), db.nextId + 1))

\* An update that is an upsert: a missing id inserts the record.
PrismaUpdateUpserts(db, id, data, down) ==
    IF down \/ ~SchemaAccepts(data) \/ id.t # "id" THEN Threw(db)
    ELSE LET m == Movie(id.n, data.title.s, data.actors.a, data.year.n)
         IN  IF HasId(db.store, id.n)
             THEN Returned(m, Db([i \in 1..Len(db.store) |->
                               IF db.store[i].id = id.n THEN m ELSE db.store[i]],
                            db.nextId))
             ELSE Returned(m, Db(Append(db.store, m), db.nextId))

\* An update whose where clause is lost: every record takes the new fields.
PrismaUpdateAll(db, id, data, down) ==
    IF down \/ ~SchemaAccepts(data) \/ id.t # "id" \/ ~HasId(db.store, id.n)
    THEN Threw(db)
    ELSE LET m == Movie(id.n, data.title.s, data.actors.a, data.year.n)
         IN  Returned(m, Db([i \in 1..Len(db.store) |->
                               Movie(db.store[i].id, m.title, m.actors, m.year)],
                            db.nextId))

\* prisma.movie.update({where: {id}, data}): throws when no record has the id.
PrismaUpdate(db, id, data, down) ==
    IF down \/ ~SchemaAccepts(data) \/ id.t # "id" \/ ~HasId(db.store, id.n)
    THEN Threw(db)
    ELSE LET m == Movie(id.n, data.title.s, data.actors.a, data.year.n)
         IN  Returned(m, Db([i \in 1..Len(db.store) |->
                               IF db.store[i].id = id.n THEN m ELSE db.store[i]],
                            db.nextId))

\* prisma.movie.delete({where: {id}}): throws when no record has the id.
PrismaDelete(db, id, down) ==
    IF down \/ id.t # "id" \/ ~HasId(db.store, id.n) THEN Threw(db)
    ELSE Returned(NoMovie,
                  Db(SelectSeq(db.store, LAMBDA m : m.id # id.n), db.nextId))

\* prisma.movie.findMany()
PrismaFindMany(db, down) ==
    IF down THEN [threw |-> TRUE, list |-> <<>>]
    ELSE [threw |-> FALSE, list |-> db.store]

---------------------------------------------------------------------------
(* The route handlers *)

Response(status, movie, list, text, db) ==
    [status |-> status, movie |-> movie, list |-> list, text |-> text, db |-> db]

\* actors: typeof actors === 'string' ? actors.split(',').map(trim) : actors
ActorsData(actors) ==
    IF actors.t = "string" THEN JArray(MapTrim(Split(actors.s))) ELSE actors

MovieData(body) ==
    [title |-> body.title, actors |-> ActorsData(body.actors),
     year |-> ParseInt(body.year)]

GET(db, down) ==
    LET r == PrismaFindMany(db, down)
    IN  IF r.threw
        THEN Response(500, NoMovie, <<>>, "Failed to fetch movies", db)
        ELSE Response(200, NoMovie, r.list, "", db)

POST(body, db, down) ==
    IF ~Truthy(body.title) \/ ~Truthy(body.actors) \/ ~Truthy(body.year)
    THEN Response(400, NoMovie, <<>>, "Missing required fields", db)
    ELSE LET r == PrismaCreate(db, MovieData(body), down)
         IN  IF r.threw
             THEN Response(500, NoMovie, <<>>, "Failed to add movie", db)
             ELSE Response(201, r.movie, <<>>, "", r.db)

PUT(body, db, down) ==
    IF ~Truthy(body.id) \/ ~Truthy(body.title) \/ ~Truthy(body.actors)
       \/ ~Truthy(body.year)
    THEN Response(400, NoMovie, <<>>, "Missing required fields", db)
    ELSE LET r == PrismaUpdate(db, body.id, MovieData(body), down)
         IN  IF r.threw
             THEN Response(500, NoMovie, <<>>, "Failed to update movie", db)
             ELSE Response(200, r.movie, <<>>, "", r.db)

DELETE(body, db, down) ==
    IF ~Truthy(body.id)
    THEN Response(400, NoMovie, <<>>, "Missing movie ID", db)
    ELSE LET r == PrismaDelete(db, body.id, down)
         IN  IF r.threw
             THEN Response(500, NoMovie, <<>>, "Failed to delete movie", db)
             ELSE Response(200, NoMovie, <<>>, "Movie deleted successfully", r.db)

Handle(method, body, db, down) ==
    CASE method = "GET"    -> GET(db, down)
      [] method = "POST"   -> POST(body, db, down)
      [] method = "PUT"    -> PUT(body, db, down)
      [] method = "DELETE" -> DELETE(body, db, down)

---------------------------------------------------------------------------
(* Requests sent straight to the route *)

Body(id, title, actors, year) ==
    [id |-> id, title |-> title, actors |-> actors, year |-> year]

NoBody == Body(JUndefined, JUndefined, JUndefined, JUndefined)

\* Bodies of the requests that exercise the identifiers: every id the
\* database can have handed out, the empty id and no id, over a few contents.
IdInputs == {JUndefined, JId(0)} \cup {JId(k) : k \in 1..MaxCreates}

TitleInputs == {JUndefined, JString(<<"T">>)}

ActorInputs ==
    {JString(<<"A", ",", " ", "B", " ", ",", "C">>),
     JString(<<"A", ",", ",", "B">>),
     JArray(<<<<"A">>>>)}

YearInputs == {JNumber(7), JString(<<"7">>)}

PostBodies ==
    {Body(JUndefined, t, a, y) :
        t \in TitleInputs, a \in ActorInputs, y \in YearInputs}

PutBodies ==
    {Body(i, t, a, y) : i \in IdInputs, t \in TitleInputs,
                        a \in ActorInputs, y \in YearInputs}

DeleteBodies == {Body(i, JUndefined, JUndefined, JUndefined) : i \in IdInputs}

\* Bodies of the requests that exercise validation and normalization: each
\* field absent, empty, well-formed and malformed, over few identifiers.
FieldIdInputs == {JUndefined, JId(1)}

FieldTitleInputs == {JUndefined, JString(<<>>), JString(<<"T">>)}

FieldActorInputs ==
    {JUndefined, JString(<<>>), JString(<<",">>),
     JString(<<"A", ",", " ", "B", " ", ",", "C">>), JArray(<<>>)}

FieldYearInputs ==
    {JUndefined, JString(<<"7">>), JString(<<"8", "a">>), JString(<<"z", "1">>)}

FieldPostBodies ==
    {Body(JUndefined, t, a, y) :
        t \in FieldTitleInputs, a \in FieldActorInputs, y \in FieldYearInputs}

FieldPutBodies ==
    {Body(i, t, a, y) : i \in FieldIdInputs, t \in FieldTitleInputs,
                        a \in FieldActorInputs, y \in FieldYearInputs}

FieldDeleteBodies ==
    {Body(i, JUndefined, JUndefined, JUndefined) :
        i \in FieldIdInputs \cup {JId(0)}}

\* One request handled from arrival to response.
Serve(method, body, down) ==
    LET r == Handle(method, body, Db(store, nextId), down)
    IN  /\ r.db.nextId <= MaxCreates + 1
        /\ store' = r.db.store
        /\ nextId' = r.db.nextId
        /\ deleted' = IF method = "DELETE" /\ r.status = 200
                      THEN deleted \cup {body.id.n} ELSE deleted
        /\ last' = [method |-> method, body |-> body, status |-> r.status,
                    movie |-> r.movie, list |-> r.list, text |-> r.text,
                    down |-> down]
        /\ before' = store

DoGET == \E down \in BOOLEAN :
        /\ Serve("GET", NoBody, down)
        /\ UNCHANGED clientVars

DoPOST == \E body \in PostBodies, down \in BOOLEAN :
        /\ Serve("POST", body, down)
        /\ UNCHANGED clientVars

DoPUT == \E body \in PutBodies, down \in BOOLEAN :
        /\ Serve("PUT", body, down)
        /\ UNCHANGED clientVars

DoDELETE ==
    \E body \in DeleteBodies, down \in BOOLEAN :
        /\ Serve("DELETE", body, down)
        /\ UNCHANGED clientVars

\* The same requests with the database reachable throughout.
FieldGET ==
    /\ Serve("GET", NoBody, FALSE)
    /\ UNCHANGED clientVars

FieldPOST == \E body \in FieldPostBodies :
        /\ Serve("POST", body, FALSE)
        /\ UNCHANGED clientVars

FieldPUT == \E body \in FieldPutBodies :
        /\ Serve("PUT", body, FALSE)
        /\ UNCHANGED clientVars

FieldDELETE == \E body \in FieldDeleteBodies :
        /\ Serve("DELETE", body, FALSE)
        /\ UNCHANGED clientVars

NoRequest ==
    [method |-> "", body |-> NoBody, status |-> 0, movie |-> NoMovie,
     list |-> <<>>, text |-> "", down |-> FALSE]

\* What a step was: for a handler resuming after its await, the handler and
\* response.ok; for any other step, its name.
Ev(kind, ok) == [kind |-> kind, ok |-> ok]

NoForm == [title |-> <<>>, actors |-> <<>>, year |-> <<>>]

ServerInit ==
    /\ store = <<>>
    /\ nextId = 1
    /\ deleted = {}
    /\ last = NoRequest
    /\ before = <<>>

PageIdle ==
    /\ movies = <<>>
    /\ newMovie = NoForm
    /\ editingMovie = NoMovie
    /\ inflight = <<>>
    /\ notice = ""
    /\ event = Ev("", TRUE)
    /\ storeFailed = FALSE

Init == ServerInit /\ PageIdle

Next == DoGET \/ DoPOST \/ DoPUT \/ DoDELETE

Spec == Init /\ [][Next]_vars

NextFields == FieldGET \/ FieldPOST \/ FieldPUT \/ FieldDELETE

SpecFields == Init /\ [][NextFields]_vars

---------------------------------------------------------------------------
(* HomePage: the component's state, its handlers and its fetches *)

\* A fetch in flight. movies and editingMovie are the values the handler's
\* closure captured when it was called; status is 0 until the route answers.
Fetch(kind, method, body, ms, editing) ==
    [kind |-> kind, method |-> method, body |-> body, movies |-> ms,
     editingMovie |-> editing, status |-> 0, movie |-> NoMovie, list |-> <<>>]

\* useEffect(() => { fetchMovies() }, []): the GET sent on mount.
FetchMoviesCall == Fetch("fetchMovies", "GET", NoBody, <<>>, NoMovie)

\* What the user may type into a field of the form.
FieldValues == {<<>>, <<"T">>}
ActorFieldValues == {<<>>, <<"A">>}
YearFieldValues == {<<>>, <<"7">>}

\* onChange of the three inputs: setNewMovie({...newMovie, field: value}).
ChangeTitle ==
    \E v \in FieldValues :
        /\ v # newMovie.title
        /\ newMovie' = [newMovie EXCEPT !.title = v]
        /\ event' = Ev("onChange", TRUE)
        /\ notice' = ""
        /\ UNCHANGED <<movies, editingMovie, inflight, storeFailed>>
        /\ UNCHANGED serverVars

ChangeActors ==
    \E v \in ActorFieldValues :
        /\ v # newMovie.actors
        /\ newMovie' = [newMovie EXCEPT !.actors = v]
        /\ event' = Ev("onChange", TRUE)
        /\ notice' = ""
        /\ UNCHANGED <<movies, editingMovie, inflight, storeFailed>>
        /\ UNCHANGED serverVars

ChangeYear ==
    \E v \in YearFieldValues :
        /\ v # newMovie.year
        /\ newMovie' = [newMovie EXCEPT !.year = v]
        /\ event' = Ev("onChange", TRUE)
        /\ notice' = ""
        /\ UNCHANGED <<movies, editingMovie, inflight, storeFailed>>
        /\ UNCHANGED serverVars

\* handleEdit(movie), from the Edit button of a listed movie.
handleEdit ==
    \E i \in 1..Len(movies) :
        /\ editingMovie' = movies[i]
        /\ newMovie' = [title |-> movies[i].title,
                        actors |-> Join(movies[i].actors),
                        year |-> NatToString(movies[i].year)]
        /\ event' = Ev("handleEdit", TRUE)
        /\ notice' = ""
        /\ UNCHANGED <<movies, inflight, storeFailed>>
        /\ UNCHANGED serverVars

\* The JSON body handleSubmit sends.
SubmitBody ==
    Body(IF editingMovie = NoMovie THEN JUndefined ELSE JId(editingMovie.id),
         JString(newMovie.title),
         JArray(MapTrim(Split(newMovie.actors))),
         ThroughJson(ParseInt(JString(newMovie.year))))

\* handleSubmit up to its await: the form's inputs are `required`, so the
\* browser submits only when none is empty.
handleSubmit ==
    /\ newMovie.title # <<>> /\ newMovie.actors # <<>> /\ newMovie.year # <<>>
    /\ Len(inflight) < MaxInflight
    /\ inflight' = Append(inflight,
                          Fetch("handleSubmit",
                                IF editingMovie = NoMovie THEN "POST" ELSE "PUT",
                                SubmitBody, movies, editingMovie))
    /\ event' = Ev("submit", TRUE)
    /\ notice' = ""
    /\ UNCHANGED <<movies, newMovie, editingMovie, storeFailed>>
    /\ UNCHANGED serverVars

\* handleDelete(id) up to its await, from the Delete button of a listed movie.
handleDelete ==
    \E i \in 1..Len(movies) :
        /\ Len(inflight) < MaxInflight
        /\ inflight' = Append(inflight,
                              Fetch("handleDelete", "DELETE",
                                    Body(JId(movies[i].id), JUndefined,
                                         JUndefined, JUndefined),
                                    movies, NoMovie))
        /\ event' = Ev("delete", TRUE)
        /\ notice' = ""
        /\ UNCHANGED <<movies, newMovie, editingMovie, storeFailed>>
        /\ UNCHANGED serverVars

\* The route handles one of the fetches in flight, in any order.
Answer ==
    \E i \in 1..Len(inflight), down \in BOOLEAN :
        LET f == inflight[i]
            r == Handle(f.method, f.body, Db(store, nextId), down)
        IN  /\ f.status = 0
            /\ r.db.nextId <= MaxCreates + 1
            /\ store' = r.db.store
            /\ nextId' = r.db.nextId
            /\ deleted' = IF f.method = "DELETE" /\ r.status = 200
                          THEN deleted \cup {f.body.id.n} ELSE deleted
            /\ inflight' = [inflight EXCEPT ![i] =
                              [f EXCEPT !.status = r.status, !.movie = r.movie,
                                        !.list = r.list]]
            /\ storeFailed' = (storeFailed \/ down)
            /\ event' = Ev("answer", TRUE)
            /\ notice' = ""
            /\ UNCHANGED <<movies, newMovie, editingMovie, last, before>>

Without(seq, i) == SubSeq(seq, 1, i - 1) \o SubSeq(seq, i + 1, Len(seq))

\* response.ok
Ok(status) == status >= 200 /\ status <= 299

\* fetchMovies after its awaits: setMovies(Array.isArray(data) ? data : []).
\* The body of a 200 is the array; the body of a 500 is {error}.
fetchMoviesResume(f) ==
    /\ movies' = IF f.status = 200 THEN f.list ELSE <<>>
    /\ notice' = ""
    /\ UNCHANGED <<newMovie, editingMovie>>

\* handleSubmit after its await.
handleSubmitResume(f) ==
    IF Ok(f.status)
    THEN /\ movies' = IF f.editingMovie # NoMovie
                      THEN [k \in 1..Len(f.movies) |->
                               IF f.movies[k].id = f.movie.id
                               THEN f.movie ELSE f.movies[k]]
                      ELSE Append(f.movies, f.movie)
         /\ editingMovie' = NoMovie
         /\ newMovie' = NoForm
         /\ notice' = ""
    ELSE /\ notice' = "Failed to save movie"
         /\ UNCHANGED <<movies, newMovie, editingMovie>>

\* handleDelete after its await.
handleDeleteResume(f) ==
    IF Ok(f.status)
    THEN /\ movies' = SelectSeq(f.movies, LAMBDA m : m.id # f.body.id.n)
         /\ notice' = ""
         /\ UNCHANGED <<newMovie, editingMovie>>
    ELSE /\ notice' = "Failed to delete movie"
         /\ UNCHANGED <<movies, newMovie, editingMovie>>

\* A response reaches the page and the handler that awaited it resumes.
Resume ==
    \E i \in 1..Len(inflight) :
        LET f == inflight[i]
        IN  /\ f.status # 0
            /\ CASE f.kind = "fetchMovies"  -> fetchMoviesResume(f)
                 [] f.kind = "handleSubmit" -> handleSubmitResume(f)
                 [] f.kind = "handleDelete" -> handleDeleteResume(f)
            /\ inflight' = Without(inflight, i)
            /\ event' = Ev(f.kind, Ok(f.status))
            /\ UNCHANGED storeFailed
            /\ UNCHANGED serverVars

InitPage ==
    /\ ServerInit
    /\ movies = <<>>
    /\ newMovie = NoForm
    /\ editingMovie = NoMovie
    /\ inflight = <<FetchMoviesCall>>
    /\ notice = ""
    /\ event = Ev("mount", TRUE)
    /\ storeFailed = FALSE

NextPage ==
    \/ ChangeTitle \/ ChangeActors \/ ChangeYear
    \/ handleEdit \/ handleSubmit \/ handleDelete
    \/ Answer \/ Resume

SpecPage == InitPage /\ [][NextPage]_vars

---------------------------------------------------------------------------
(* What the specification asks of a request, stated apart from the code *)

RECURSIVE DropEmpty(_)
DropEmpty(a) ==
    IF a = <<>> THEN <<>>
    ELSE IF Head(a) = <<>> THEN DropEmpty(Tail(a))
    ELSE <<Head(a)>> \o DropEmpty(Tail(a))

\* Split on commas, trim each segment, drop the empty segments.
RefNormalize(s) == DropEmpty(MapTrim(Split(s)))

\* The names of an actors input: of a string its normalization, of an array
\* its non-empty trimmed elements.
RefActors(v) ==
    IF v.t = "string" THEN RefNormalize(v.s)
    ELSE IF v.t = "array" THEN DropEmpty(MapTrim(v.a))
    ELSE <<>>

\* A field that is absent or empty.
AbsentOrEmpty(v) ==
    \/ v.t \in {"undefined", "null"}
    \/ v.t = "string" /\ v.s = <<>>
    \/ v.t = "array" /\ v.a = <<>>
    \/ v.t = "id" /\ v.n = 0

\* A year input that is a number: an integer, or a string of digits.
Numeric(v) ==
    \/ v.t = "number"
    \/ v.t = "string" /\ v.s # <<>> /\ \A i \in 1..Len(v.s) : IsDigit(v.s[i])

NumericValue(v) == IF v.t = "number" THEN v.n ELSE DigitsValue(v.s, 0)

ValidInput(body) ==
    /\ body.title.t = "string" /\ body.title.s # <<>>
    /\ RefActors(body.actors) # <<>>
    /\ Numeric(body.year) /\ NumericValue(body.year) # 0

\* A stored record is the record the input asks for.
MatchesInput(m, body) ==
    /\ m.title = body.title.s
    /\ m.actors = RefActors(body.actors)
    /\ m.year = NumericValue(body.year)

Success(status) == status \in {200, 201}

Record(ms, id) == ms[CHOOSE i \in 1..Len(ms) : ms[i].id = id]

---------------------------------------------------------------------------
(* Claims about the route handlers *)

\* C1: a POST or PUT whose body lacks, or has empty, any of title, actors or
\* year, a PUT whose body lacks id and a DELETE whose body lacks id are
\* answered 400 and leave the store as it was.
C1_MissingFieldIs400 ==
    LET b == last.body
        lacksField == AbsentOrEmpty(b.title) \/ AbsentOrEmpty(b.actors)
                      \/ AbsentOrEmpty(b.year)
    IN  (\/ last.method \in {"POST", "PUT"} /\ lacksField
         \/ last.method \in {"PUT", "DELETE"} /\ AbsentOrEmpty(b.id))
        => (last.status = 400 /\ store = before)

\* C2: every persisted record has a non-empty title, a year, and an actors
\* sequence that is non-empty after normalization.
C2_PersistedRecordsComplete ==
    \A i \in 1..Len(store) :
        /\ store[i].title # <<>>
        /\ store[i].year \in Nat
        /\ DropEmpty(MapTrim(store[i].actors)) # <<>>

\* C3: when a create or update is given actors as one string, the actors
\* persisted and returned are the reference normalization of that string,
\* and no stored actors sequence holds an empty string.
C3_ActorsNormalized ==
    /\ (last.method \in {"POST", "PUT"} /\ Success(last.status)
        /\ last.body.actors.t = "string")
       => /\ last.movie.actors = RefNormalize(last.body.actors.s)
          /\ Record(store, last.movie.id).actors = RefNormalize(last.body.actors.s)
    /\ \A i \in 1..Len(store) :
          \A j \in 1..Len(store[i].actors) : store[i].actors[j] # <<>>

\* C4: a create or update whose year is not numeric is answered 400 and
\* leaves the store as it was, and a year that is persisted is the numeric
\* value that was submitted.
C4_NonNumericYearRejected ==
    /\ (last.method \in {"POST", "PUT"} /\ ~AbsentOrEmpty(last.body.year)
        /\ ~Numeric(last.body.year))
       => (last.status = 400 /\ store = before)
    /\ (last.method \in {"POST", "PUT"} /\ Success(last.status))
       => (Numeric(last.body.year)
           /\ last.movie.year = NumericValue(last.body.year))

\* C5: after a create of a valid input has answered 201, the list holds
\* exactly one record matching the input, and that record carries a new,
\* non-empty id that no record of the store had before.
C5_CreateThenList ==
    (last.method = "POST" /\ last.status = 201 /\ ValidInput(last.body))
    => LET list == GET(Db(store, nextId), FALSE).list
           hits == {i \in 1..Len(list) : MatchesInput(list[i], last.body)}
       IN  /\ Cardinality(hits) = 1
           /\ \A i \in hits : list[i].id # 0 /\ list[i].id \notin Ids(before)

\* C6: once a DELETE for an id has answered 200, no later list returns a
\* record with that id, whatever creates, updates and deletes follow.
C6_DeletedNeverListed ==
    \A id \in deleted : ~HasId(GET(Db(store, nextId), FALSE).list, id)

\* C6 witness: an update aimed at a deleted id, after a later create.
C6_Witness ==
    /\ last.method = "PUT" /\ last.body.id.n \in deleted
    /\ ~AbsentOrEmpty(last.body.title)
    /\ store # <<>>

---------------------------------------------------------------------------
(* Claims about the page *)

Resumed == {"fetchMovies", "handleSubmit", "handleDelete"}

\* C9: when a create, update or delete receives a non-success response, a
\* failure notice is shown and movies, newMovie and editingMovie stay as
\* they were; the local list changes only on a success response.
C9_FailureLeavesLocalState ==
    [][/\ (event'.kind \in {"handleSubmit", "handleDelete"} /\ ~event'.ok)
          => (notice' # "" /\ UNCHANGED <<movies, newMovie, editingMovie>>)
       /\ (movies' # movies) => (event'.kind \in Resumed /\ event'.ok)]_vars

\* C10: with no store failure, once every response has been processed the
\* ids of the local list are the ids of the store.
C10_ListMirrorsStore ==
    (inflight = <<>> /\ ~storeFailed) => Ids(movies) = Ids(store)

====
